---- MODULE Spec2Model ----
(***************************************************************************)
(* A model of HDRS, the degeneracy-handling root stack of                  *)
(* CGAL/Kinetic/Handle_degeneracy_function_kernel.h.                       *)
(*                                                                         *)
(* HDRS wraps the root stack of a function kernel (solver_) and its        *)
(* even-multiplicity classifier (iem_).  The wrapped solver, the           *)
(* classifier and the sign-between-roots evaluator are template            *)
(* parameters: they are the environment, and the model draws what they     *)
(* return from small sets.                                                 *)
(***************************************************************************)
EXTENDS Integers, Sequences, FiniteSets, TLC

\* --------------------------------------------------------------- bounds
\* Roots are the integers 0..MaxRoot; the wrapped solver holds at most
\* MaxLen of them.
MaxRoot == 2
MaxLen == 3

Roots == 0..MaxRoot

\* Root(): the default-constructed root pop() stores in extra_root_.
NullRoot == -1

\* CGAL::Sign, the result of the sign-between-roots evaluator.
Sign == {"NEGATIVE", "ZERO", "POSITIVE"}

\* All the sequences of roots a wrapped solver can hold, top first.
RECURSIVE SeqsUpTo(_)
SeqsUpTo(n) ==
    IF n = 0 THEN {<<>>}
    ELSE LET shorter == SeqsUpTo(n - 1)
         IN shorter \cup {<<r>> \o s : r \in Roots, s \in {t \in shorter : Len(t) = n - 1}}

VARIABLES
    phase,       \* "new" before the constructor ran, "live" after it, "failed" when its precondition failed
    uf_roots,    \* what k.root_stack_object(uf, lb, ub) yields: the roots of uf, top first
    lb,          \* the constructor's argument lb
    solver,      \* solver_
    iem,         \* iem_, the classifier k.is_even_multiplicity_object(uf)
    extra_root,  \* extra_root_
    one_even,    \* one_even_
    has_extra,   \* has_extra_
    cout,        \* what the constructor wrote to std::cout
    ret,         \* the last call on the object and what it returned
    sign0,       \* history: what the sign evaluator returned in the constructor
    pops,        \* history: number of calls of pop()
    upops,       \* history: number of calls of solver_.pop()
    undefined,   \* history: solver_.top() was read while solver_ was empty
    pc,          \* the traversal loop's position ("caller" when the caller is free)
    observed,    \* the traversal loop's reads of top(), in order
    mesh,        \* measure.h: the mesh a measure is called on, pmesh or tmesh
    mcall,       \* measure.h: the function called and its argument
    mpc,         \* measure.h: "idle" before the call, "loop", "done", "failed"; "off" when HDRS is run
    mit,         \* measure.h: the BOOST_FOREACH iterator
    result,      \* measure.h: the local variable result
    visited,     \* measure.h, history: what the loop body ran on, in order
    mret         \* measure.h: the value returned

vars == <<phase, uf_roots, lb, solver, iem, extra_root, one_even, has_extra,
          cout, ret, sign0, pops, upops, undefined, pc, observed,
          mesh, mcall, mpc, mit, result, visited, mret>>

\* The variables of the measure functions.
MeasureVars == <<mesh, mcall, mpc, mit, result, visited, mret>>

\* The measure functions are not run.
MeasureOff ==
    /\ mesh = [nf |-> 0, point |-> <<>>]
    /\ mcall = [fn |-> "none"]
    /\ mpc = "off"
    /\ mit = 0
    /\ result = 0
    /\ visited = <<>>
    /\ mret = 0

\* ------------------------------------------------- the wrapped solver
\* Wrapped_solver::top(): the first root; on an empty stack the read is
\* undefined and may produce any root.
SolverTop(s) == IF s = <<>> THEN Roots ELSE {Head(s)}

\* Wrapped_solver::empty()
SolverEmpty(s) == s = <<>>

\* Wrapped_solver::pop(): drops the first root (nothing to drop on an
\* empty stack).
SolverPop(s) == IF s = <<>> THEN s ELSE Tail(s)

\* The double the wrapped solver reports for a root: an approximation,
\* two close roots may share it.
Approx(r) == r \div 2

\* Wrapped_solver::estimate(): the approximation of the top root; any
\* double when there is none.
SolverEstimate(s) == IF s = <<>> THEN {Approx(r) : r \in Roots} ELSE {Approx(Head(s))}

\* operator<<(std::ostream&, const Wrapped_solver&): the roots left, in
\* brackets.
SolverPrint(s) == <<"[">> \o [i \in 1..Len(s) |-> ToString(s[i])] \o <<"]">>

\* ------------------------------------------------------------- HDRS
\* The object: its data members.
self ==
    [solver |-> solver, extra_root |-> extra_root, one_even |-> one_even,
     has_extra |-> has_extra, iem |-> iem]

\* A faulty Degenerate: the test is sn != POSITIVE.
DegenerateNotPositive(sn) == sn # "POSITIVE"

\* The constructor's test of the sign between lb and solver_.top().
Degenerate(sn) == sn = "NEGATIVE"

\* A faulty HDRS: the constructor does not initialise one_even_.
HDRSNoOneEven(h, b, sn) ==
    IF Degenerate(sn)
    THEN [h EXCEPT !.extra_root = b, !.has_extra = TRUE]
    ELSE [h EXCEPT !.has_extra = FALSE]

\* A faulty HDRS: the extra root is solver_.top(), not lb.
HDRSExtraIsTop(h, b, sn) ==
    IF Degenerate(sn)
    THEN [h EXCEPT !.extra_root = IF h.solver = <<>> THEN b ELSE Head(h.solver),
                   !.has_extra = TRUE, !.one_even = FALSE]
    ELSE [h EXCEPT !.has_extra = FALSE, !.one_even = FALSE]

\* HDRS::HDRS, the body after the precondition: h holds the members the
\* initialiser list set (solver_, iem_), b is lb, sn the sign evaluated
\* between lb and solver_.top().
HDRS(h, b, sn) ==
    IF Degenerate(sn)
    THEN [h EXCEPT !.extra_root = b, !.has_extra = TRUE, !.one_even = FALSE]
    ELSE [h EXCEPT !.has_extra = FALSE, !.one_even = FALSE]

\* A faulty top: it does not look at has_extra_.
topOfSolver(h) == SolverTop(h.solver)

\* HDRS::top(): the roots it can return (one, unless solver_.top() is
\* undefined).
top(h) == IF h.has_extra THEN {h.extra_root} ELSE SolverTop(h.solver)

\* A faulty pop: no even-multiplicity branch.
popNoSuppress(h) ==
    IF h.has_extra
    THEN [h EXCEPT !.extra_root = NullRoot, !.has_extra = FALSE]
    ELSE [h EXCEPT !.solver = SolverPop(h.solver), !.one_even = FALSE]

\* A faulty pop: the first branch pops solver_ too.
popExtraPopsSolver(h) ==
    IF h.has_extra
    THEN [h EXCEPT !.extra_root = NullRoot, !.has_extra = FALSE,
                   !.solver = SolverPop(h.solver)]
    ELSE IF ~h.one_even /\ (\E t \in SolverTop(h.solver) : h.iem[t])
         THEN [h EXCEPT !.one_even = TRUE]
         ELSE [h EXCEPT !.solver = SolverPop(h.solver), !.one_even = FALSE]

\* A faulty pop: the last branch does not reset one_even_.
popNoReset(h) ==
    IF h.has_extra
    THEN [h EXCEPT !.extra_root = NullRoot, !.has_extra = FALSE]
    ELSE IF ~h.one_even /\ (\E t \in SolverTop(h.solver) : h.iem[t])
         THEN [h EXCEPT !.one_even = TRUE]
         ELSE [h EXCEPT !.solver = SolverPop(h.solver)]

\* A faulty pop: the second branch does not test one_even_.
popNoOneEvenTest(h) ==
    IF h.has_extra
    THEN [h EXCEPT !.extra_root = NullRoot, !.has_extra = FALSE]
    ELSE IF \E t \in SolverTop(h.solver) : h.iem[t]
         THEN [h EXCEPT !.one_even = TRUE]
         ELSE [h EXCEPT !.solver = SolverPop(h.solver), !.one_even = FALSE]

\* A faulty pop: the first branch does not clear has_extra_.
popKeepsExtra(h) ==
    IF h.has_extra
    THEN [h EXCEPT !.extra_root = NullRoot]
    ELSE IF ~h.one_even /\ (\E t \in SolverTop(h.solver) : h.iem[t])
         THEN [h EXCEPT !.one_even = TRUE]
         ELSE [h EXCEPT !.solver = SolverPop(h.solver), !.one_even = FALSE]

\* A faulty pop: the second branch pops solver_ too.
popSuppressAlsoPops(h) ==
    IF h.has_extra
    THEN [h EXCEPT !.extra_root = NullRoot, !.has_extra = FALSE]
    ELSE IF ~h.one_even /\ (\E t \in SolverTop(h.solver) : h.iem[t])
         THEN [h EXCEPT !.one_even = TRUE, !.solver = SolverPop(h.solver)]
         ELSE [h EXCEPT !.solver = SolverPop(h.solver), !.one_even = FALSE]

\* HDRS::pop().  Callers pop a sequence that is not empty, so solver_
\* holds a root whenever the second test reads solver_.top().
pop(h) ==
    IF h.has_extra
    THEN [h EXCEPT !.extra_root = NullRoot, !.has_extra = FALSE]
    ELSE IF ~h.one_even /\ (\E t \in SolverTop(h.solver) : h.iem[t])
         THEN [h EXCEPT !.one_even = TRUE]
         ELSE [h EXCEPT !.solver = SolverPop(h.solver), !.one_even = FALSE]

\* A faulty empty: the negation of has_extra_ is missing.
emptyNoNegation(h) == h.has_extra /\ SolverEmpty(h.solver)

\* HDRS::empty()
empty(h) == ~h.has_extra /\ SolverEmpty(h.solver)

\* A faulty estimate: the estimate of the root top() returns.
estimateOfTop(h) ==
    IF h.has_extra THEN {Approx(h.extra_root)} ELSE SolverEstimate(h.solver)

\* HDRS::estimate()
estimate(h) == SolverEstimate(h.solver)

\* A faulty write: it writes the extra root too.
writeWithExtra(h, out) ==
    out \o SolverPrint(h.solver) \o (IF h.has_extra THEN <<"extra">> ELSE <<>>)

\* HDRS::write(out): the stream after the call, given what it held.
write(h, out) == out \o SolverPrint(h.solver)

\* ---------------------------------------------------------- actions
Store(n) ==
    /\ solver' = n.solver
    /\ extra_root' = n.extra_root
    /\ one_even' = n.one_even
    /\ has_extra' = n.has_extra

\* Before the constructor ran: the function, its roots and the bound are
\* chosen, extra_root_ is default-constructed, the two flags are
\* uninitialised.
InitObject ==
    /\ phase = "new"
    /\ uf_roots \in SeqsUpTo(MaxLen)
    /\ lb \in Roots
    /\ iem \in [Roots -> BOOLEAN]
    /\ solver = <<>>
    /\ extra_root = NullRoot
    /\ one_even \in BOOLEAN
    /\ has_extra \in BOOLEAN
    /\ cout = <<>>
    /\ ret = [op |-> "none", val |-> 0]
    /\ sign0 = "ZERO"
    /\ pops = 0
    /\ upops = 0
    /\ undefined = FALSE
    /\ observed = <<>>
    /\ MeasureOff

\* The caller is free to call any member in any order.
Init == InitObject /\ pc = "caller"

\* The caller runs the traversal loop
\*   while (!s.empty()) { r = s.top(); s.pop(); }
InitTraversal == InitObject /\ pc = "test"

\* HDRS::HDRS(uf, lb, ub, k).  checked: the build evaluates
\* CGAL_expensive_precondition; t: what solver_.top() returns; sn: what
\* the sign evaluator returns for (lb, t).
Construct ==
    /\ phase = "new"
    /\ \E checked \in BOOLEAN, t \in SolverTop(uf_roots), sn \in Sign :
         /\ undefined' = SolverEmpty(uf_roots)
         /\ IF checked /\ ~(t > lb)
            THEN /\ phase' = "failed"
                 /\ solver' = uf_roots
                 /\ UNCHANGED <<extra_root, one_even, has_extra, cout, ret, sign0>>
            ELSE /\ phase' = "live"
                 /\ Store(HDRS([self EXCEPT !.solver = uf_roots], lb, sn))
                 /\ cout' = IF Degenerate(sn) THEN <<lb, t>> ELSE <<>>
                 /\ sign0' = sn
                 /\ ret' = [op |-> "HDRS", val |-> 0]
    /\ UNCHANGED <<uf_roots, lb, iem, pops, upops, pc, observed, MeasureVars>>

\* What no call after construction changes.
Fixed == <<phase, uf_roots, lb, iem, cout, sign0, MeasureVars>>

\* What no const member function changes.
Members == <<solver, extra_root, one_even, has_extra, pops, upops>>

\* HDRS reads solver_.top(), or pops solver_, when solver_ is empty.
Misuse(h) == ~h.has_extra /\ SolverEmpty(h.solver)

\* r = top()
DoTop ==
    /\ phase = "live"
    /\ \E r \in top(self) : ret' = [op |-> "top", val |-> r]
    /\ undefined' = (undefined \/ Misuse(self))
    /\ UNCHANGED <<Fixed, Members>>

\* pop()
DoPop ==
    /\ phase = "live"
    /\ Store(pop(self))
    /\ pops' = pops + 1
    /\ upops' = upops + (Len(solver) - Len(pop(self).solver))
    /\ ret' = [op |-> "pop", val |-> 0]
    /\ undefined' = (undefined \/ Misuse(self))
    /\ UNCHANGED Fixed

\* b = empty()
DoEmpty ==
    /\ phase = "live"
    /\ ret' = [op |-> "empty", val |-> empty(self)]
    /\ UNCHANGED <<Fixed, Members, undefined>>

\* d = estimate()
DoEstimate ==
    /\ phase = "live"
    /\ \E e \in estimate(self) : ret' = [op |-> "estimate", val |-> e]
    /\ UNCHANGED <<Fixed, Members, undefined>>

\* What the stream a caller passes to write() can hold already.
Streams == {<<>>, <<"roots: ">>}

\* write(out), or operator<<, on a stream that holds out.
DoWrite ==
    /\ phase = "live"
    /\ \E out \in Streams : ret' = [op |-> "write", val |-> write(self, out)]
    /\ UNCHANGED <<Fixed, Members, undefined>>

\* The free caller: top() and pop() only on a sequence that is not empty.
CallTop == pc = "caller" /\ ~empty(self) /\ DoTop /\ UNCHANGED <<pc, observed>>

CallPop == pc = "caller" /\ ~empty(self) /\ DoPop /\ UNCHANGED <<pc, observed>>

CallEmpty == pc = "caller" /\ DoEmpty /\ UNCHANGED <<pc, observed>>

CallEstimate == pc = "caller" /\ DoEstimate /\ UNCHANGED <<pc, observed>>

CallWrite == pc = "caller" /\ DoWrite /\ UNCHANGED <<pc, observed>>

\* The traversal loop: its test, its read of top(), its pop().
LoopTest ==
    /\ pc = "test"
    /\ DoEmpty
    /\ pc' = IF empty(self) THEN "done" ELSE "read"
    /\ UNCHANGED observed

LoopRead ==
    /\ pc = "read"
    /\ DoTop
    /\ observed' = Append(observed, ret'.val)
    /\ pc' = "pop"

LoopPop ==
    /\ pc = "pop"
    /\ DoPop
    /\ pc' = "test"
    /\ UNCHANGED observed

Next ==
    \/ Construct
    \/ CallTop
    \/ CallPop
    \/ CallEmpty
    \/ CallEstimate
    \/ CallWrite

Spec == Init /\ [][Next]_vars

NextTraversal ==
    \/ Construct
    \/ LoopTest
    \/ LoopRead
    \/ LoopPop

SpecTraversal == InitTraversal /\ [][NextTraversal]_vars

\* ------------------------------------------------ measure.h: the mesh
\* The meshes are triangle strips of at most MaxFaces triangles; a face
\* range holds at most MaxRange faces.
MaxFaces == 2
MaxRange == 2

\* The points of vertices, in the plane z = 0.
PointSet == {<<0, 0>>, <<2, 0>>, <<0, 1>>}

\* boost::graph_traits<PolygonMesh>::null_face()
NullFace == 0

\* A strip of nf triangles on the vertices 1..nf+2: triangle t is on the
\* vertices t, t+1, t+2, and one border cycle runs around the strip.
NumVertices(m) == IF m.nf = 0 THEN 0 ELSE m.nf + 2

\* The vertices of face t in the order of its halfedges; neighbours turn
\* the same way, so the halfedges of a shared edge are opposite.
FaceVertices(t) == IF t % 2 = 1 THEN <<t, t + 1, t + 2>> ELSE <<t, t + 2, t + 1>>

\* The vertices of the border cycle: the odd ones up, then the even ones
\* down.
BorderVertices(m) ==
    LET n == NumVertices(m)
        odd == (n + 1) \div 2
        even == n \div 2
    IN [i \in 1..odd |-> 2 * i - 1] \o [i \in 1..even |-> 2 * (even - i + 1)]

\* The halfedges: three per face, then those of the border cycle.
halfedges(m) == 1..(3 * m.nf + NumVertices(m))

\* faces(tmesh), in the order of its iterator
faces(m) == [f \in 1..m.nf |-> f]

\* face(h, pmesh)
face(h, m) == IF h <= 3 * m.nf THEN ((h - 1) \div 3) + 1 ELSE NullFace

\* is_border(h, pmesh)
is_border(h, m) == face(h, m) = NullFace

\* halfedge(f, tmesh): a halfedge of face f
halfedge(f, m) == 3 * (f - 1) + 1

\* next(h, pmesh)
next(h, m) ==
    IF h <= 3 * m.nf
    THEN IF h % 3 = 0 THEN h - 2 ELSE h + 1
    ELSE IF h = 3 * m.nf + NumVertices(m) THEN 3 * m.nf + 1 ELSE h + 1

\* source(h, pmesh)
source(h, m) ==
    IF h <= 3 * m.nf
    THEN FaceVertices(face(h, m))[((h - 1) % 3) + 1]
    ELSE BorderVertices(m)[h - 3 * m.nf]

\* target(h, pmesh)
target(h, m) == source(next(h, m), m)

\* get(vpm, v)
get(m, v) == m.point[v]

\* CGAL::squared_distance(p, q)
squared_distance(p, q) == (p[1] - q[1]) * (p[1] - q[1]) + (p[2] - q[2]) * (p[2] - q[2])

\* CGAL::squared_area(p, q, r), times 4: the square of the cross product.
squared_area4(p, q, r) ==
    LET cross == (q[1] - p[1]) * (r[2] - p[2]) - (q[2] - p[2]) * (r[1] - p[1])
    IN cross * cross

\* CGAL::sqrt of x4 / 4 as a double: doubles are the multiples of 1/2,
\* written in halves, and the root is rounded down to one.
sqrt4(x4) == CHOOSE k \in 0..x4 : k * k <= x4 /\ x4 < (k + 1) * (k + 1)

\* length(h, pmesh, np), in halves
length(h, m) == sqrt4(4 * squared_distance(get(m, source(h, m)), get(m, target(h, m))))

\* area(f, tmesh, np) of one face, in halves
area(f, m) ==
    LET hd == halfedge(f, m)
        nhd == next(hd, m)
    IN sqrt4(squared_area4(get(m, source(hd, m)), get(m, target(hd, m)),
                           get(m, target(nhd, m))))

\* halfedges_around_face(h, pmesh): its begin iterator, and ++ on an
\* iterator; the end iterator is at h again with winding 1.
AroundFaceBegin(h) == [pos |-> h, winding |-> 0]

AroundFaceNext(it, h, m) ==
    LET n == next(it.pos, m)
    IN [pos |-> n, winding |-> IF n = h THEN it.winding + 1 ELSE it.winding]

AroundFaceEnd(h) == [pos |-> h, winding |-> 1]

\* A faulty border_length: result = length(...) in place of +=.
BorderAssign(r, h, m) == length(h, m)

\* border_length: the body of its loop, result += length(haf, pmesh, np).
BorderAccumulate(r, h, m) == r + length(h, m)

\* A faulty area: result = area(...) in place of +=.
AreaAssign(r, f, m) == area(f, m)

\* area of a face range: the body of its loop, result += area(f, tmesh, np).
AreaAccumulate(r, f, m) == r + area(f, m)

\* All the face ranges of at most n faces of m, repeats allowed.
RECURSIVE FaceRanges(_, _)
FaceRanges(m, n) ==
    IF n = 0 THEN {<<>>}
    ELSE LET shorter == FaceRanges(m, n - 1)
         IN shorter \cup {<<f>> \o s : f \in 1..m.nf, s \in {r \in shorter : Len(r) = n - 1}}

\* What the HDRS variables hold while the measure functions are run.
HdrsOff ==
    /\ phase = "off"
    /\ uf_roots = <<>>
    /\ lb = 0
    /\ solver = <<>>
    /\ iem = [r \in Roots |-> FALSE]
    /\ extra_root = NullRoot
    /\ one_even = FALSE
    /\ has_extra = FALSE
    /\ cout = <<>>
    /\ ret = [op |-> "none", val |-> 0]
    /\ sign0 = "ZERO"
    /\ pops = 0
    /\ upops = 0
    /\ undefined = FALSE
    /\ pc = "off"
    /\ observed = <<>>

HdrsVars ==
    <<phase, uf_roots, lb, solver, iem, extra_root, one_even, has_extra,
      cout, ret, sign0, pops, upops, undefined, pc, observed>>

\* A mesh and its vertex points are chosen; nothing is called yet.
InitMeasure ==
    /\ HdrsOff
    /\ \E nf \in 0..MaxFaces :
         \E pts \in [1..(IF nf = 0 THEN 0 ELSE nf + 2) -> PointSet] :
            mesh = [nf |-> nf, point |-> pts]
    /\ mcall = [fn |-> "none"]
    /\ mpc = "idle"
    /\ mit = 0
    /\ result = 0
    /\ visited = <<>>
    /\ mret = 0

\* border_length(h, pmesh) is called: CGAL_precondition(is_border(h, pmesh))
\* (checked: the build evaluates it), result = 0, the loop begins.
BorderLengthCall ==
    /\ mpc = "idle"
    /\ \E h \in halfedges(mesh), checked \in BOOLEAN :
         /\ mcall' = [fn |-> "border_length", h |-> h]
         /\ IF checked /\ ~is_border(h, mesh)
            THEN mpc' = "failed" /\ UNCHANGED <<mit, result>>
            ELSE mpc' = "loop" /\ mit' = AroundFaceBegin(h) /\ result' = 0
    /\ UNCHANGED <<mesh, visited, mret, HdrsVars>>

\* One turn of the loop of border_length.
BorderLengthStep ==
    /\ mpc = "loop"
    /\ mcall.fn = "border_length"
    /\ mit # AroundFaceEnd(mcall.h)
    /\ result' = BorderAccumulate(result, mit.pos, mesh)
    /\ visited' = Append(visited, mit.pos)
    /\ mit' = AroundFaceNext(mit, mcall.h, mesh)
    /\ UNCHANGED <<mesh, mcall, mpc, mret, HdrsVars>>

\* The loop of border_length is over: return result.
BorderLengthReturn ==
    /\ mpc = "loop"
    /\ mcall.fn = "border_length"
    /\ mit = AroundFaceEnd(mcall.h)
    /\ mret' = result
    /\ mpc' = "done"
    /\ UNCHANGED <<mesh, mcall, mit, result, visited, HdrsVars>>

\* area(face_range, tmesh) is called: result = 0, the loop begins.
AreaRangeCall ==
    /\ mpc = "idle"
    /\ \E r \in FaceRanges(mesh, MaxRange) :
         mcall' = [fn |-> "area_range", range |-> r]
    /\ mpc' = "loop"
    /\ mit' = 1
    /\ result' = 0
    /\ UNCHANGED <<mesh, visited, mret, HdrsVars>>

\* area(tmesh) is called: it calls area(faces(tmesh), tmesh).
AreaMeshCall ==
    /\ mpc = "idle"
    /\ mcall' = [fn |-> "area_mesh", range |-> faces(mesh)]
    /\ mpc' = "loop"
    /\ mit' = 1
    /\ result' = 0
    /\ UNCHANGED <<mesh, visited, mret, HdrsVars>>

\* One turn of the loop of area(face_range, tmesh).
AreaStep ==
    /\ mpc = "loop"
    /\ mcall.fn \in {"area_range", "area_mesh"}
    /\ mit <= Len(mcall.range)
    /\ result' = AreaAccumulate(result, mcall.range[mit], mesh)
    /\ visited' = Append(visited, mcall.range[mit])
    /\ mit' = mit + 1
    /\ UNCHANGED <<mesh, mcall, mpc, mret, HdrsVars>>

\* The loop of area(face_range, tmesh) is over: return result.
AreaReturn ==
    /\ mpc = "loop"
    /\ mcall.fn \in {"area_range", "area_mesh"}
    /\ mit > Len(mcall.range)
    /\ mret' = result
    /\ mpc' = "done"
    /\ UNCHANGED <<mesh, mcall, mit, result, visited, HdrsVars>>

NextMeasure ==
    \/ BorderLengthCall
    \/ BorderLengthStep
    \/ BorderLengthReturn
    \/ AreaRangeCall
    \/ AreaMeshCall
    \/ AreaStep
    \/ AreaReturn

SpecMeasure == InitMeasure /\ [][NextMeasure]_vars

\* ------------------------------------------------------------ claims
live == phase = "live"

\* A step that is a call of pop().
PopStep == pops' = pops + 1

\* N: the roots the wrapped solver held at construction.
NumRoots == Len(uf_roots)

\* E: those of them the classifier reports as even-multiplicity.
NumEven == Cardinality({i \in 1..Len(uf_roots) : iem[uf_roots[i]]})

\* D: 1 when the constructor found the sign NEGATIVE, else 0.
NumExtra == IF sign0 = "NEGATIVE" THEN 1 ELSE 0

\* The input the documentation asks for: the wrapped solver holds the
\* roots in increasing order and the first is greater than lb.
WellFormed ==
    /\ uf_roots # <<>>
    /\ lb < Head(uf_roots)
    /\ \A i \in 1..(Len(uf_roots) - 1) : uf_roots[i] < uf_roots[i + 1]

\* C1, as stated: empty() is true exactly when N + D calls of pop() were
\* made.
C1_EmptyAfterRootsPlusExtra ==
    (live /\ WellFormed) => (empty(self) <=> pops = NumRoots + NumExtra)

\* C1, amended: empty() is true exactly when N + E + D calls of pop() were
\* made, and never more are made: every even-multiplicity root takes two.
C1_EmptyAfterRootsEvenExtra ==
    live => /\ pops <= NumRoots + NumEven + NumExtra
            /\ empty(self) <=> pops = NumRoots + NumEven + NumExtra

C1_Witness ==
    /\ live
    /\ WellFormed
    /\ ret = [op |-> "empty", val |-> TRUE]
    /\ NumRoots >= 2
    /\ NumEven >= 1
    /\ NumExtra = 1
    /\ pops = NumRoots + NumEven + NumExtra

\* C2: a call of top() never returns a root of the wrapped solver that the
\* classifier reports as even-multiplicity while one_even_ is false.
C2_TopNeverUnpassedEven ==
    (live /\ WellFormed /\ ret.op = "top" /\ ~has_extra) => ~(iem[ret.val] /\ ~one_even)

\* C3: when the sign found at construction is NEGATIVE, top() before the
\* first pop() is lb; after the first pop() has_extra_ is false, the
\* wrapped solver still holds all its roots, and top() is its first root.
C3_ExtraRootFirst ==
    (live /\ sign0 = "NEGATIVE") =>
        /\ pops = 0 => /\ top(self) = {lb}
                       /\ ret.op = "top" => ret.val = lb
        /\ pops = 1 => /\ ~has_extra
                       /\ solver = uf_roots
                       /\ upops = 0
                       /\ solver # <<>> => top(self) = {Head(uf_roots)}
                       /\ ret.op = "top" => ret.val = Head(uf_roots)

C3_Witness ==
    /\ live
    /\ WellFormed
    /\ sign0 = "NEGATIVE"
    /\ pops = 1
    /\ ret.op = "top"
    /\ ret.val # lb
    /\ cout = <<lb, ret.val>>

\* C4: a pop() made with has_extra_ and one_even_ false on a first root
\* the classifier reports as even-multiplicity leaves the wrapped solver
\* and top() as they are and sets one_even_; the pop() made in that state
\* removes the first root of the wrapped solver and resets one_even_, and
\* then top() is the next root, or the sequence is empty.
C4_EvenRootPassedOnce ==
    [][PopStep =>
         /\ (~has_extra /\ ~one_even /\ solver # <<>> /\ iem[Head(solver)]) =>
                /\ solver' = solver
                /\ one_even'
                /\ ~has_extra'
                /\ top(self)' = top(self)
         /\ one_even =>
                /\ solver # <<>>
                /\ solver' = Tail(solver)
                /\ ~one_even'
                /\ IF Len(solver) > 1
                   THEN top(self)' = {solver[2]}
                   ELSE empty(self)']_vars

C4_Witness ==
    /\ live
    /\ WellFormed
    /\ ret.op = "pop"
    /\ sign0 # "NEGATIVE"
    /\ pops = 2
    /\ upops = 1
    /\ iem[uf_roots[1]]
    /\ ~one_even
    /\ solver # <<>>

\* C5: when no root of the wrapped solver is even-multiplicity, the
\* traversal loop ends with empty() true, having read lb first if the sign
\* found at construction was NEGATIVE, then the roots of the wrapped
\* solver in its order, each once.
C5_TraversalObserves ==
    (pc = "done" /\ NumEven = 0) =>
        /\ observed = (IF sign0 = "NEGATIVE" THEN <<lb>> ELSE <<>>) \o uf_roots
        /\ empty(self)

C5_Witness ==
    /\ pc = "done"
    /\ WellFormed
    /\ NumEven = 0
    /\ sign0 = "NEGATIVE"
    /\ Len(uf_roots) >= 2
    /\ Len(observed) = Len(uf_roots) + 1

\* C6: a pop() made with one_even_ true pops the wrapped solver and leaves
\* one_even_ false, whatever the next root is; a pop() that neither clears
\* the extra root nor pops the wrapped solver starts with one_even_ false.
C6_OneSuppressionAtATime ==
    [][PopStep =>
         /\ one_even => (upops' = upops + 1 /\ ~one_even')
         /\ (~has_extra /\ upops' = upops) => (~one_even /\ one_even')]_vars

C6_Witness ==
    /\ live
    /\ WellFormed
    /\ ret.op = "pop"
    /\ upops >= 1
    /\ iem[uf_roots[upops]]
    /\ pops = 2 * upops + NumExtra
    /\ solver # <<>>
    /\ iem[Head(solver)]
    /\ ~one_even

\* C7: after construction has_extra_ is true exactly when the sign found
\* is NEGATIVE, and then extra_root_ is lb; one_even_ is false.
C7_Construction ==
    (live /\ pops = 0) =>
        /\ has_extra <=> sign0 = "NEGATIVE"
        /\ has_extra => extra_root = lb
        /\ ~one_even

C7_Witness ==
    /\ live
    /\ WellFormed
    /\ ret.op = "HDRS"
    /\ sign0 = "NEGATIVE"
    /\ has_extra
    /\ extra_root = lb

\* C8: once has_extra_ is false no call makes it true again, a pop()
\* always leaves it false, and from then on top() is the top of the
\* wrapped solver.
C8_ExtraRootIssuedOnce ==
    [][(live /\ (~has_extra \/ PopStep)) =>
         (~has_extra' /\ top(self)' = SolverTop(solver'))]_vars

C8_Witness ==
    /\ live
    /\ WellFormed
    /\ sign0 = "NEGATIVE"
    /\ pops >= 2
    /\ ret.op = "top"
    /\ ~has_extra

\* C9: one_even_ is false after the pop() that clears the extra root and
\* after a pop() that pops the wrapped solver; has_extra_ and one_even_
\* are never both true.
C9_OneEvenReset ==
    [][/\ phase' = "live" => ~(has_extra' /\ one_even')
       /\ (PopStep /\ (has_extra \/ upops' # upops)) => ~one_even']_vars

C9_Witness ==
    /\ live
    /\ WellFormed
    /\ ret.op = "pop"
    /\ sign0 = "NEGATIVE"
    /\ pops = 1
    /\ ~one_even
    /\ solver # <<>>
    /\ iem[Head(solver)]

\* C10: estimate() returns the estimate of the wrapped solver, which is
\* that of its first root also while has_extra_ is true.
C10_EstimateOfSolver ==
    (live /\ ret.op = "estimate") =>
        /\ ret.val \in SolverEstimate(solver)
        /\ solver # <<>> => ret.val = Approx(Head(solver))

C10_Witness ==
    /\ live
    /\ WellFormed
    /\ ret.op = "estimate"
    /\ has_extra
    /\ solver # <<>>
    /\ ret.val # Approx(extra_root)

\* The objects that differ from h at most in has_extra_, extra_root_
\* (the null root or lb, the two values it is ever given) and one_even_.
SameSolver(h) ==
    {[h EXCEPT !.has_extra = he, !.one_even = oe, !.extra_root = er] :
        he \in BOOLEAN, oe \in BOOLEAN, er \in {NullRoot, lb}}

\* C11: a call of write() changes no member of the object, and what it
\* writes is what every object with the same wrapped solver writes on the
\* same stream, whatever its has_extra_, extra_root_ and one_even_.
C11_WriteOfSolverOnly ==
    [][ret'.op = "write" =>
         /\ UNCHANGED <<solver, extra_root, one_even, has_extra, iem>>
         /\ \E out \in Streams :
              \A other \in SameSolver(self) : write(other, out) = ret'.val]_vars

C11_Witness ==
    /\ live
    /\ WellFormed
    /\ ret.op = "write"
    /\ has_extra
    /\ ret.val = <<"[">> \o [i \in 1..Len(solver) |-> ToString(solver[i])] \o <<"]">>
    /\ Len(solver) >= 2

\* The roots among the first n of the wrapped solver that the classifier
\* reports as even-multiplicity.
EvenAmong(n) == Cardinality({i \in 1..n : iem[uf_roots[i]]})

\* C14: the wrapped solver always holds the roots not yet popped, so each
\* root is popped from it once and in order; the calls of pop() made are
\* one per root popped, one more per even-multiplicity root passed over,
\* and one for the extra root; the sequence is empty after N + E + D.
C14_PopAccounting ==
    live =>
        /\ upops <= NumRoots
        /\ solver = SubSeq(uf_roots, upops + 1, NumRoots)
        /\ pops = upops + EvenAmong(upops) + (IF one_even THEN 1 ELSE 0)
                    + (IF has_extra THEN 0 ELSE NumExtra)
        /\ empty(self) => (upops = NumRoots /\ pops = NumRoots + NumEven + NumExtra)

C14_Witness ==
    /\ live
    /\ WellFormed
    /\ empty(self)
    /\ NumRoots = 2
    /\ NumEven = 2
    /\ NumExtra = 1
    /\ pops = 5
    /\ upops = 2

\* C15: after construction, with a caller that calls top() and pop() only
\* when empty() is false, no call reads solver_.top(), applies the
\* classifier to it or pops solver_ while solver_ is empty.
C15_NoEmptySolverAccess ==
    [][phase = "live" =>
         /\ undefined' = undefined
         /\ (PopStep \/ (ret'.op = "top" /\ ret' # ret)) => ~Misuse(self)]_vars

C15_Witness ==
    /\ live
    /\ WellFormed
    /\ ~undefined
    /\ empty(self)
    /\ ret.op = "pop"
    /\ sign0 = "NEGATIVE"
    /\ NumEven >= 1

\* C16: the constructor does not read solver_.top() while solver_ is
\* empty, also when the function has no root in the range.
C16_ConstructionReadsNoEmptyTop ==
    (phase # "new" /\ pops = 0) => ~undefined

\* C17: when the roots of the wrapped solver increase strictly and the
\* first is greater than lb, the values the traversal reads never
\* decrease, lb (when it is read) is smaller than every later value, and
\* two successive values are equal only for an even-multiplicity root,
\* which is read twice and not three times.
C17_ObservedOrder ==
    WellFormed =>
        /\ \A i \in 1..(Len(observed) - 1) :
              /\ observed[i] <= observed[i + 1]
              /\ observed[i] = observed[i + 1] =>
                    /\ iem[observed[i]]
                    /\ ~(sign0 = "NEGATIVE" /\ i = 1)
                    /\ i + 2 <= Len(observed) => observed[i + 2] # observed[i]
        /\ sign0 = "NEGATIVE" =>
              \A j \in 2..Len(observed) : observed[1] < observed[j]

C17_Witness ==
    /\ pc = "done"
    /\ WellFormed
    /\ sign0 = "NEGATIVE"
    /\ Len(observed) >= 4
    /\ observed[1] = lb
    /\ observed[2] = observed[3]
    /\ observed[3] < observed[4]

\* The halfedge reached from h by k applications of next.
RECURSIVE NextTimes(_, _, _)
NextTimes(h, k, m) == IF k = 0 THEN h ELSE NextTimes(next(h, m), k - 1, m)

\* The halfedges on the cycle of h.
CycleOf(h, m) == {NextTimes(h, k, m) : k \in 0..Cardinality(halfedges(m))}

\* The sum of the lengths of a set of halfedges.
RECURSIVE SumLength(_, _)
SumLength(S, m) ==
    IF S = {} THEN 0
    ELSE LET h == CHOOSE x \in S : TRUE
         IN length(h, m) + SumLength(S \ {h}, m)

\* The sum of the areas of a sequence of faces.
RECURSIVE SumArea(_, _)
SumArea(s, m) == IF s = <<>> THEN 0 ELSE area(Head(s), m) + SumArea(Tail(s), m)

\* The sum of the areas of a set of faces.
RECURSIVE SumAreaOf(_, _)
SumAreaOf(S, m) ==
    IF S = {} THEN 0
    ELSE LET f == CHOOSE x \in S : TRUE
         IN area(f, m) + SumAreaOf(S \ {f}, m)

\* C12: border_length(h, pmesh) fails its precondition only when h is no
\* border halfedge; when it returns, its loop ran once on each halfedge of
\* the cycle of h and on nothing else, and the value returned is the sum
\* of their lengths.
C12_BorderLengthSumsCycle ==
    mcall.fn = "border_length" =>
        /\ mpc = "failed" => ~is_border(mcall.h, mesh)
        /\ mpc = "done" =>
              /\ Len(visited) = Cardinality(CycleOf(mcall.h, mesh))
              /\ {visited[i] : i \in 1..Len(visited)} = CycleOf(mcall.h, mesh)
              /\ mret = SumLength(CycleOf(mcall.h, mesh), mesh)

C12_Witness ==
    /\ mpc = "done"
    /\ mcall.fn = "border_length"
    /\ is_border(mcall.h, mesh)
    /\ mesh.nf = 2
    /\ Len(visited) = 4
    /\ \A i \in 1..4 : length(visited[i], mesh) > 0
    /\ length(visited[1], mesh) # length(visited[2], mesh)
    /\ mret > length(visited[1], mesh) + length(visited[2], mesh)

\* C13: area(face_range, tmesh) returns the sum of area(f, tmesh) over
\* the faces of face_range in its order, 0 for an empty range; area(tmesh)
\* returns that of faces(tmesh), the sum over the faces of the mesh, each
\* once.
C13_AreaSumsFaces ==
    (mpc = "done" /\ mcall.fn \in {"area_range", "area_mesh"}) =>
        /\ visited = mcall.range
        /\ mret = SumArea(mcall.range, mesh)
        /\ mcall.range = <<>> => mret = 0
        /\ mcall.fn = "area_mesh" =>
              /\ Len(visited) = mesh.nf
              /\ mret = SumAreaOf(1..mesh.nf, mesh)

C13_Witness ==
    /\ mpc = "done"
    /\ mcall.fn = "area_mesh"
    /\ mesh.nf = 2
    /\ area(1, mesh) > 0
    /\ area(2, mesh) > 0
    /\ mret = area(1, mesh) + area(2, mesh)

====
